---- MODULE Spec2Model ----
(***************************************************************************)
(* data_fetcher.py: download two spreadsheets, load each into a table and  *)
(* fetch one satellite image per row into a per-dataset directory.         *)
(*                                                                         *)
(* Representation.  A Python string that the code inspects character by    *)
(* character (column names, image identifiers, file names) is a tuple of   *)
(* one-character strings.  A spreadsheet cell is a record                  *)
(* [na |-> BOOLEAN, v |-> Int]: na is pd.isna(cell), v is the float value  *)
(* in tenths (v = 15 is 1.5).  The file system is `dirs` (the existing     *)
(* directories) and `files` (a function from <<directory, name>> to the    *)
(* content of the file).                                                   *)
(***************************************************************************)
EXTENDS Integers, Sequences, FiniteSets, TLC

VARIABLES
    API_KEY,        \* module global, line 10
    files,          \* file system: <<dir, name>> -> content
    dirs,           \* file system: existing directories
    console,        \* the lines printed so far
    netlog,         \* the network requests issued so far
    mpc,            \* position of the caller (main, or the two-run driver)
    pc,             \* position inside download_images_from_df
    df,             \* the table passed to download_images_from_df
    output_dir,     \* its second argument
    cursor,         \* 1-based position of the row the loop of line 84 is at
    success_count, skip_count, fail_count,
    calls,          \* one record per call of download_images_from_df
    remote,         \* the tables served by the two spreadsheet URLs
    files0, dirs0   \* the file system when the program started

vars == <<API_KEY, files, dirs, console, netlog, mpc, pc, df, output_dir, cursor,
          success_count, skip_count, fail_count, calls, remote, files0, dirs0>>

fsvars == <<files, dirs>>
frame == <<df, output_dir, cursor, success_count, skip_count, fail_count>>

(***************************************************************************)
(* Bounds                                                                  *)
(***************************************************************************)
MaxRows == 2

(***************************************************************************)
(* Strings                                                                 *)
(***************************************************************************)
Range(s) == {s[i] : i \in DOMAIN s}

Last(s) == s[Len(s)]

IsSpace(ch) == ch \in {" ", "\t", "\n"}

LowerCh(ch) ==
    CASE ch = "A" -> "a" [] ch = "D" -> "d" [] ch = "G" -> "g" [] ch = "I" -> "i"
      [] ch = "L" -> "l" [] ch = "N" -> "n" [] ch = "O" -> "o" [] ch = "T" -> "t"
      [] OTHER -> ch

Lower(s) == [i \in 1..Len(s) |-> LowerCh(s[i])]

RECURSIVE LStrip(_)
LStrip(s) == IF s = <<>> THEN s
             ELSE IF IsSpace(Head(s)) THEN LStrip(Tail(s)) ELSE s

RECURSIVE RStrip(_)
RStrip(s) == IF s = <<>> THEN s
             ELSE IF IsSpace(Last(s)) THEN RStrip(SubSeq(s, 1, Len(s) - 1)) ELSE s

Strip(s) == RStrip(LStrip(s))

Digits == <<"0", "1", "2", "3", "4", "5", "6", "7", "8", "9">>

RECURSIVE StrNat(_)
StrNat(n) == IF n < 10 THEN <<Digits[n + 1]>>
             ELSE StrNat(n \div 10) \o <<Digits[(n % 10) + 1]>>

\* str(n) of an int
Str(n) == IF n < 0 THEN <<"-">> \o StrNat(-n) ELSE StrNat(n)

\* int(x) of a float given in tenths: truncation toward zero
PyInt(v) == IF v >= 0 THEN v \div 10 ELSE -((-v) \div 10)

s_lat == <<"l", "a", "t">>
s_long == <<"l", "o", "n", "g">>
s_id == <<"i", "d">>
s_jpg == <<".", "j", "p", "g">>
s_idx == <<"i", "d", "x", "_">>
train_xlsx == <<"t", "r", "a", "i", "n", ".", "x", "l", "s", "x">>
test_xlsx == <<"t", "e", "s", "t", ".", "x", "l", "s", "x">>

(***************************************************************************)
(* File system                                                             *)
(***************************************************************************)
EmptyFS == [p \in {} |-> "none"]

Exists(fs, path) == path \in DOMAIN fs

\* open(path, 'wb') followed by the writes: the file holds `content`
WriteFile(fs, path, content) ==
    [q \in (DOMAIN fs) \cup {path} |-> IF q = path THEN content ELSE fs[q]]

\* os.path.join(dir, name)
Join(dir, name) == <<dir, name>>

(***************************************************************************)
(* The remote services.  What one GET can do:                              *)
(*   ok          status 200 and the whole body arrives                     *)
(*   http_error  a status other than 200                                   *)
(*   exc_connect requests.get raises (no response)                         *)
(*   exc_stream  status 200, then iter_content raises in mid-body          *)
(***************************************************************************)
Outcomes == {"ok", "http_error", "exc_connect", "exc_stream"}

Status200(o) == o \in {"ok", "exc_stream"}

Say(msg, arg) == [msg |-> msg, arg |-> arg]

\* os.getenv: None, or the string
NoKey == [some |-> FALSE, s |-> <<>>]
EmptyKey == [some |-> TRUE, s |-> <<>>]
SomeKey == [some |-> TRUE, s |-> <<"A", "I", "z", "a">>]

(***************************************************************************)
(* fetch_satellite_image(lat, long, output_path), lines 31-56              *)
(***************************************************************************)
\* variant: the body is never written to output_path
fetch_satellite_imageNoWrite(o, output_path, fs) ==
    IF o = "ok"
    THEN [ret |-> TRUE, files |-> fs, out |-> <<>>]
    ELSE [ret |-> FALSE, files |-> fs, out |-> <<Say("fetch failed", o)>>]

fetch_satellite_image(o, output_path, fs) ==
    IF o = "exc_connect"
    THEN \* line 45 raises, lines 54-56
         [ret |-> FALSE, files |-> fs,
          out |-> <<Say("Exception fetching image", o)>>]
    ELSE IF Status200(o)
    THEN IF o = "exc_stream"
         THEN \* line 47 has created the file, line 48 raises, lines 54-56
              [ret |-> FALSE, files |-> WriteFile(fs, output_path, "partial"),
               out |-> <<Say("Exception fetching image", o)>>]
         ELSE \* lines 47-50
              [ret |-> TRUE, files |-> WriteFile(fs, output_path, "jpg"),
               out |-> <<>>]
    ELSE \* lines 52-53
         [ret |-> FALSE, files |-> fs, out |-> <<Say("Error status", o)>>]

(***************************************************************************)
(* download_excel_files(url, filename), lines 12-29                        *)
(***************************************************************************)
\* variant: without the check of line 13
ExcelExistsNever(fs, filename) == FALSE

\* line 13
ExcelExists(fs, filename) == Exists(fs, Join(".", filename))

download_excel_files(filename, o) ==
    IF ExcelExists(files, filename)
    THEN /\ console' = Append(console, Say("already exists. Skipping download.", filename))
         /\ UNCHANGED <<files, netlog>>
    ELSE /\ netlog' = Append(netlog, [kind |-> "xlsx", path |-> Join(".", filename)])
         /\ files' = IF ~Status200(o) THEN files
                     ELSE WriteFile(files, Join(".", filename),
                                    IF o = "ok" THEN "xlsx" ELSE "partial")
         /\ console' = console \o
               << Say("Downloading", filename),
                  Say(CASE o = "ok" -> "Successfully downloaded"
                        [] o = "http_error" -> "Failed to download"
                        [] OTHER -> "Error downloading", filename) >>

(***************************************************************************)
(* download_images_from_df(df, output_dir), lines 58-107                   *)
(***************************************************************************)
\* variant: 'long' is not required
required_colsLatOnly == <<s_lat>>

\* line 63
required_cols == <<s_lat, s_long>>

\* lines 64-75: the columns after the renames, and the first column not found
RECURSIVE ResolveFrom(_, _)
ResolveFrom(columns, req) ==
    IF req = <<>> THEN [ok |-> TRUE, columns |-> columns, col |-> <<>>]
    ELSE LET col == Head(req)
             match == {k \in DOMAIN columns : Lower(Strip(columns[k])) = col}
         IN  IF col \in Range(columns) THEN ResolveFrom(columns, Tail(req))
             ELSE IF match # {}
             THEN LET k == CHOOSE k \in match : \A j \in match : k <= j
                  IN  ResolveFrom([columns EXCEPT ![k] = col], Tail(req))
             ELSE [ok |-> FALSE, columns |-> columns, col |-> col]

ColIndex(columns, name) == CHOOSE k \in DOMAIN columns : columns[k] = name

\* row[name]
Cell(table, i, name) == table.rows[i][ColIndex(table.columns, name)]

\* line 86: does str(int(row['id'])) raise
IdRaises(table, i) == s_id \in Range(table.columns) /\ Cell(table, i, s_id).na

\* line 86
ImgId(table, i) ==
    IF s_id \in Range(table.columns)
    THEN Str(PyInt(Cell(table, i, s_id).v))
    ELSE s_idx \o Str(i - 1)

\* line 90
OutputPath(table, dir, i) == Join(dir, ImgId(table, i) \o s_jpg)

\* variant: without the check of line 92
ImageExistsNever(fs, path) == FALSE

\* line 92
ImageExists(fs, path) == Exists(fs, path)

\* variant: and instead of or
IsMissingBoth(lat, long) == lat.na /\ long.na

\* line 96
IsMissing(lat, long) == lat.na \/ long.na

\* variant: the delay follows a successful fetch only
AfterFetchSleepOnSuccess(ret, cur) ==
    IF ret THEN [pc |-> "sleep", cursor |-> cur] ELSE [pc |-> "row", cursor |-> cur + 1]

\* lines 100-105: whatever the fetch returned, line 105 is next
AfterFetch(ret, cur) == [pc |-> "sleep", cursor |-> cur]

NewCall(table, dir) ==
    [dir |-> dir, columns0 |-> table.columns, dirs0 |-> dirs,
     requests |-> 0, sleeps |-> 0,
     cls |-> [i \in 1..Len(table.rows) |-> "none"],
     resp |-> [i \in 1..Len(table.rows) |-> "none"],
     report |-> <<>>]

Cur == calls[Len(calls)]

SetCur(c) == calls' = [calls EXCEPT ![Len(calls)] = c]

Classify(what) == SetCur([Cur EXCEPT !.cls[cursor] = what])

\* the call itself: a new frame
EnterBatch(table, dir) ==
    /\ pc' = "verify"
    /\ df' = table
    /\ output_dir' = dir
    /\ cursor' = 0
    /\ success_count' = 0 /\ skip_count' = 0 /\ fail_count' = 0
    /\ calls' = Append(calls, NewCall(table, dir))

\* lines 63-72 with every required column found
ColumnsResolved ==
    /\ pc = "verify"
    /\ LET r == ResolveFrom(df.columns, required_cols)
       IN  /\ r.ok
           /\ df' = [df EXCEPT !.columns = r.columns]
    /\ pc' = "mkdir"
    /\ UNCHANGED <<API_KEY, fsvars, console, netlog, mpc, output_dir, cursor,
                   success_count, skip_count, fail_count, calls, remote, files0, dirs0>>

\* lines 63-75 with a required column not found
ColumnsMissing ==
    /\ pc = "verify"
    /\ LET r == ResolveFrom(df.columns, required_cols)
       IN  /\ ~r.ok
           /\ df' = [df EXCEPT !.columns = r.columns]
           /\ console' = Append(console, Say("Error: Column not found. Available:", r.columns))
    /\ pc' = "returned"
    /\ UNCHANGED <<API_KEY, fsvars, netlog, mpc, output_dir, cursor,
                   success_count, skip_count, fail_count, calls, remote, files0, dirs0>>

\* lines 77-84
Prepare ==
    /\ pc = "mkdir"
    /\ dirs' = dirs \cup {output_dir}
    /\ console' = Append(console, Say("Target Folder", output_dir))
    /\ success_count' = 0 /\ skip_count' = 0 /\ fail_count' = 0
    /\ cursor' = 1
    /\ pc' = "row"
    /\ UNCHANGED <<API_KEY, files, netlog, mpc, df, output_dir, calls, remote, files0, dirs0>>

AtRow == pc = "row" /\ cursor <= Len(df.rows)

\* line 86 raises ValueError: the exception leaves download_images_from_df
RowBadId ==
    /\ AtRow
    /\ IdRaises(df, cursor)
    /\ pc' = "raised"
    /\ UNCHANGED <<API_KEY, fsvars, console, netlog, mpc, frame, calls, remote, files0, dirs0>>

\* lines 86-94
RowSkip ==
    /\ AtRow
    /\ ~IdRaises(df, cursor)
    /\ ImageExists(files, OutputPath(df, output_dir, cursor))
    /\ skip_count' = skip_count + 1
    /\ cursor' = cursor + 1
    /\ Classify("skipped")
    /\ UNCHANGED <<API_KEY, fsvars, console, netlog, mpc, pc, df, output_dir,
                   success_count, fail_count, remote, files0, dirs0>>

\* lines 86-98
RowMissing ==
    /\ AtRow
    /\ ~IdRaises(df, cursor)
    /\ ~ImageExists(files, OutputPath(df, output_dir, cursor))
    /\ IsMissing(Cell(df, cursor, s_lat), Cell(df, cursor, s_long))
    /\ fail_count' = fail_count + 1
    /\ cursor' = cursor + 1
    /\ Classify("failed")
    /\ UNCHANGED <<API_KEY, fsvars, console, netlog, mpc, pc, df, output_dir,
                   success_count, skip_count, remote, files0, dirs0>>

\* lines 86-103
RowFetch ==
    /\ AtRow
    /\ ~IdRaises(df, cursor)
    /\ LET path == OutputPath(df, output_dir, cursor)
       IN  /\ ~ImageExists(files, path)
           /\ ~IsMissing(Cell(df, cursor, s_lat), Cell(df, cursor, s_long))
           /\ \E o \in Outcomes :
                LET r == fetch_satellite_image(o, path, files)
                    next == AfterFetch(r.ret, cursor)
                IN  /\ netlog' = Append(netlog, [kind |-> "image", path |-> path])
                    /\ files' = r.files
                    /\ console' = console \o r.out
                    /\ success_count' = IF r.ret THEN success_count + 1 ELSE success_count
                    /\ fail_count' = IF r.ret THEN fail_count ELSE fail_count + 1
                    /\ SetCur([Cur EXCEPT !.requests = @ + 1,
                                          !.resp[cursor] = o,
                                          !.cls[cursor] = IF r.ret THEN "saved" ELSE "failed"])
                    /\ pc' = next.pc
                    /\ cursor' = next.cursor
    /\ UNCHANGED <<API_KEY, dirs, mpc, df, output_dir, skip_count, remote, files0, dirs0>>

\* line 105
Sleep ==
    /\ pc = "sleep"
    /\ SetCur([Cur EXCEPT !.sleeps = @ + 1])
    /\ cursor' = cursor + 1
    /\ pc' = "row"
    /\ UNCHANGED <<API_KEY, fsvars, console, netlog, mpc, df, output_dir,
                   success_count, skip_count, fail_count, remote, files0, dirs0>>

\* line 107
Summary ==
    /\ pc = "row"
    /\ cursor > Len(df.rows)
    /\ console' = Append(console, Say("Done.", <<success_count, skip_count, fail_count>>))
    /\ SetCur([Cur EXCEPT !.report = <<success_count, skip_count, fail_count>>])
    /\ pc' = "returned"
    /\ UNCHANGED <<API_KEY, fsvars, netlog, mpc, frame, remote, files0, dirs0>>

BatchStep ==
    \/ ColumnsResolved
    \/ ColumnsMissing
    \/ Prepare
    \/ RowBadId
    \/ RowSkip
    \/ RowMissing
    \/ RowFetch
    \/ Sleep
    \/ Summary

(***************************************************************************)
(* Tables                                                                  *)
(***************************************************************************)
Num(v) == [na |-> FALSE, v |-> v]
NaN == [na |-> TRUE, v |-> 0]

IdCells == {Num(10), Num(15), Num(20), NaN}
LatCells == {Num(400), NaN}
LongCells == {Num(-740), NaN}

\* the column layouts: names, and the kind of cell under each
Layouts ==
    { [columns |-> <<s_id, s_lat, s_long>>, cells |-> <<IdCells, LatCells, LongCells>>],
      [columns |-> <<<<" ", "L", "a", "t", " ">>, <<"L", "O", "N", "G">>>>,
       cells |-> <<LatCells, LongCells>>],
      [columns |-> <<s_id, <<"l", "a", "t", "i", "t", "u", "d", "e">>, s_long>>,
       cells |-> <<{Num(10)}, LatCells, LongCells>>],
      [columns |-> <<s_lat, <<"l", "n", "g">>>>, cells |-> <<LatCells, LongCells>>] }

RowsOf(layout) ==
    {r \in [DOMAIN layout.columns -> IdCells \cup LatCells \cup LongCells] :
        \A k \in DOMAIN r : r[k] \in layout.cells[k]}

TablesUpTo(n) ==
    UNION { {[columns |-> layout.columns, rows |-> rows] :
                rows \in UNION {[1..m -> RowsOf(layout)] : m \in 0..n}} :
            layout \in Layouts }

\* the table of the scenario of spec section 8: ids 1, 2, 3, id 2 without latitude
ScenarioTable ==
    [columns |-> <<s_id, s_lat, s_long>>,
     rows |-> << <<Num(10), Num(400), Num(-740)>>,
                 <<Num(20), NaN, Num(-730)>>,
                 <<Num(30), Num(410), Num(-750)>> >>]

Tables == TablesUpTo(MaxRows) \cup {ScenarioTable}

\* the tables the two spreadsheets may hold: one row, longitude present
MainTables ==
    {t \in TablesUpTo(1) : Len(t.rows) = 1 /\ ~t.rows[1][Len(t.columns)].na}

NoTable == [columns |-> <<>>, rows |-> <<>>]

Jpg(name) == name \o s_jpg

\* the output directory before the first run: absent, empty, or holding one file
InitialImages ==
    { [dirs |-> {"."}, files |-> EmptyFS],
      [dirs |-> {".", "satellite_images"}, files |-> EmptyFS],
      [dirs |-> {".", "satellite_images"},
       files |-> WriteFile(EmptyFS, Join("satellite_images", Jpg(<<"1">>)), "old")],
      [dirs |-> {".", "satellite_images"},
       files |-> WriteFile(EmptyFS, Join("satellite_images", Jpg(s_idx \o <<"0">>)), "old")] }

(***************************************************************************)
(* SpecBatch: download_images_from_df called twice on the same table and   *)
(* the same directory                                                      *)
(***************************************************************************)
InitBatch ==
    /\ API_KEY = SomeKey
    /\ \E fs \in InitialImages :
          /\ files = fs.files /\ dirs = fs.dirs
          /\ files0 = fs.files /\ dirs0 = fs.dirs
    /\ console = <<>>
    /\ netlog = <<>>
    /\ mpc = "before_first"
    /\ pc = "idle"
    /\ df \in Tables
    /\ output_dir = "satellite_images"
    /\ cursor = 0
    /\ success_count = 0 /\ skip_count = 0 /\ fail_count = 0
    /\ calls = <<>>
    /\ remote = <<>>

FirstRun ==
    /\ mpc = "before_first"
    /\ mpc' = "first"
    /\ EnterBatch(df, output_dir)
    /\ UNCHANGED <<API_KEY, fsvars, console, netlog, remote, files0, dirs0>>

SecondRun ==
    /\ mpc = "first"
    /\ pc \in {"returned", "raised"}
    /\ mpc' = "second"
    /\ EnterBatch(df, output_dir)
    /\ UNCHANGED <<API_KEY, fsvars, console, netlog, remote, files0, dirs0>>

NextBatch == FirstRun \/ SecondRun \/ BatchStep

SpecBatch == InitBatch /\ [][NextBatch]_vars

(***************************************************************************)
(* main(), lines 109-143                                                   *)
(***************************************************************************)
\* variant: API_KEY is None
KeyMissingNoneOnly(key) == ~key.some

\* line 110: not API_KEY
KeyMissing(key) == ~key.some \/ Len(key.s) = 0

Datasets ==
    { [name |-> "train", file |-> train_xlsx, dir |-> "satellite_images",
       at |-> "proc_train", in |-> "in_train", next |-> "proc_test"],
      [name |-> "test", file |-> test_xlsx, dir |-> "test_images",
       at |-> "proc_test", in |-> "in_test", next |-> "done"] }

\* variant: without the try/except
AfterExceptionEscapes(d) == "escaped"

\* lines 128-129 and 140-141: the exception is printed and main goes on
AfterException(d) == d.next

\* pd.read_excel: does it raise on a file with this content
ReadExcelRaises(content) == content # "xlsx"

\* lines 110-112
MainNoKey ==
    /\ mpc = "start"
    /\ KeyMissing(API_KEY)
    /\ console' = Append(console, Say("CRITICAL ERROR: GOOGLE_MAPS_API_KEY not found", ".env"))
    /\ mpc' = "done"
    /\ UNCHANGED <<API_KEY, fsvars, netlog, pc, frame, calls, remote, files0, dirs0>>

\* lines 110, 115
MainKeyOk ==
    /\ mpc = "start"
    /\ ~KeyMissing(API_KEY)
    /\ console' = Append(console, Say("--- Step 1: Checking Data Files ---", ""))
    /\ mpc' = "dl_train"
    /\ UNCHANGED <<API_KEY, fsvars, netlog, pc, frame, calls, remote, files0, dirs0>>

\* line 119
MainDownloadTrain ==
    /\ mpc = "dl_train"
    /\ \E o \in Outcomes : download_excel_files(train_xlsx, o)
    /\ mpc' = "dl_test"
    /\ UNCHANGED <<API_KEY, dirs, pc, frame, calls, remote, files0, dirs0>>

\* line 120
MainDownloadTest ==
    /\ mpc = "dl_test"
    /\ \E o \in Outcomes : download_excel_files(test_xlsx, o)
    /\ mpc' = "proc_train"
    /\ UNCHANGED <<API_KEY, dirs, pc, frame, calls, remote, files0, dirs0>>

\* lines 124, 130-131 and 135, 142-143
MainNotFound ==
    \E d \in Datasets :
        /\ mpc = d.at
        /\ ~Exists(files, Join(".", d.file))
        /\ console' = Append(console, Say("not found.", d.file))
        /\ mpc' = d.next
        /\ UNCHANGED <<API_KEY, fsvars, netlog, pc, frame, calls, remote, files0, dirs0>>

\* lines 124-126, 128-129 and 135-137, 140-141: read_excel raises
MainLoadFails ==
    \E d \in Datasets :
        /\ mpc = d.at
        /\ Exists(files, Join(".", d.file))
        /\ ReadExcelRaises(files[Join(".", d.file)])
        /\ console' = Append(console, Say("Error processing", d.file))
        /\ mpc' = AfterException(d)
        /\ UNCHANGED <<API_KEY, fsvars, netlog, pc, frame, calls, remote, files0, dirs0>>

\* lines 124-127 and 135-139: the table is loaded and passed on
MainLoad ==
    \E d \in Datasets :
        /\ mpc = d.at
        /\ Exists(files, Join(".", d.file))
        /\ ~ReadExcelRaises(files[Join(".", d.file)])
        /\ EnterBatch(remote[d.name], d.dir)
        /\ mpc' = d.in
        /\ UNCHANGED <<API_KEY, fsvars, console, netlog, remote, files0, dirs0>>

\* download_images_from_df returned
MainReturn ==
    \E d \in Datasets :
        /\ mpc = d.in
        /\ pc = "returned"
        /\ pc' = "idle"
        /\ mpc' = d.next
        /\ UNCHANGED <<API_KEY, fsvars, console, netlog, frame, calls, remote, files0, dirs0>>

\* lines 128-129 and 140-141: download_images_from_df raised
MainCatch ==
    \E d \in Datasets :
        /\ mpc = d.in
        /\ pc = "raised"
        /\ pc' = "idle"
        /\ console' = Append(console, Say("Error processing", d.file))
        /\ mpc' = AfterException(d)
        /\ UNCHANGED <<API_KEY, fsvars, netlog, frame, calls, remote, files0, dirs0>>

\* the working directory when main starts
InitialFiles ==
    { [dirs |-> img.dirs,
       files |-> [p \in (DOMAIN img.files) \cup {Join(".", f) : f \in DOMAIN x}
                    |-> IF p \in DOMAIN img.files THEN img.files[p] ELSE x[p[2]]]] :
        img \in {i \in InitialImages : Join("satellite_images", Jpg(s_idx \o <<"0">>))
                                          \notin DOMAIN i.files},
        x \in UNION {[S -> {"xlsx", "partial"}] : S \in SUBSET {train_xlsx, test_xlsx}} }

InitMain ==
    /\ API_KEY \in {NoKey, EmptyKey, SomeKey}
    /\ \E fs \in InitialFiles :
          /\ files = fs.files /\ dirs = fs.dirs
          /\ files0 = fs.files /\ dirs0 = fs.dirs
    /\ console = <<>>
    /\ netlog = <<>>
    /\ mpc = "start"
    /\ pc = "idle"
    /\ df = NoTable
    /\ output_dir = ""
    /\ cursor = 0
    /\ success_count = 0 /\ skip_count = 0 /\ fail_count = 0
    /\ calls = <<>>
    /\ remote \in [{"train", "test"} -> MainTables]

NextMain ==
    \/ MainNoKey
    \/ MainKeyOk
    \/ MainDownloadTrain
    \/ MainDownloadTest
    \/ MainNotFound
    \/ MainLoadFails
    \/ MainLoad
    \/ MainReturn
    \/ MainCatch
    \/ BatchStep

SpecMain == InitMain /\ [][NextMain]_vars

(***************************************************************************)
(* Vocabulary of the properties.  These are stated on the table and the    *)
(* file system, not through the operators of the code above.               *)
(***************************************************************************)
HasColumn(table, name) == \E k \in DOMAIN table.columns : table.columns[k] = name

\* some column resolves to lat and some column resolves to long
Resolvable(columns) ==
    \A col \in {s_lat, s_long} : \E k \in DOMAIN columns : Lower(Strip(columns[k])) = col

\* row i has a latitude and a longitude
HasCoords(table, i) ==
    /\ HasColumn(table, s_lat) /\ HasColumn(table, s_long)
    /\ ~Cell(table, i, s_lat).na /\ ~Cell(table, i, s_long).na

\* row i lacks its latitude or its longitude
CoordMissing(table, i) ==
    /\ HasColumn(table, s_lat) /\ HasColumn(table, s_long)
    /\ (Cell(table, i, s_lat).na \/ Cell(table, i, s_long).na)

RowsWithCoords(table) == {i \in DOMAIN table.rows : HasCoords(table, i)}
RowsMissingCoord(table) == {i \in DOMAIN table.rows : CoordMissing(table, i)}

Printed(msg, arg) == \E i \in DOMAIN console : console[i].msg = msg /\ console[i].arg = arg

Requested(kind, path) ==
    \E i \in DOMAIN netlog : netlog[i].kind = kind /\ netlog[i].path = path

KeyAbsentOrEmpty == API_KEY \in {NoKey, EmptyKey}

\* the step issues a network request
Requests == Len(netlog') = Len(netlog) + 1

\* no file that exists is removed or changed by the step
ExistingFilesKept == \A p \in DOMAIN files : p \in DOMAIN files' /\ files'[p] = files[p]

(***************************************************************************)
(* C1                                                                      *)
(***************************************************************************)
\* in the first run every row that has both coordinates received a 200 response
FirstRunAllAnswered200 ==
    \A i \in RowsWithCoords(df) : Status200(calls[1].resp[i])

\* C1: idempotence of download_images_from_df.  If in the first run every row
\* with both coordinates received an HTTP 200 response, then the output file
\* of each such row exists, and the second run over the same table and
\* directory issues no image request.
C1_Idempotent ==
    (mpc = "second" /\ FirstRunAllAnswered200) =>
        /\ \A i \in RowsWithCoords(df) : Exists(files, OutputPath(df, output_dir, i))
        /\ calls[2].requests = 0
        /\ Len(netlog) = calls[1].requests

C1_Witness ==
    /\ mpc = "second" /\ pc = "returned"
    /\ FirstRunAllAnswered200
    /\ calls[1].requests = 2
    /\ calls[2].requests = 0
    /\ calls[2].report = <<0, 2, 0>>

(***************************************************************************)
(* C2                                                                      *)
(***************************************************************************)
\* the loop is at a row that lacks a coordinate
AtRowMissingCoord == AtRow /\ CoordMissing(df, cursor)

\* C2 as claimed: a row with a missing latitude or longitude that the loop
\* passes causes no request and is counted as failed, whatever the directory
\* holds.
C2_Original ==
    [][ (AtRowMissingCoord /\ cursor' = cursor + 1) =>
            /\ ~Requests
            /\ fail_count' = fail_count + 1
            /\ skip_count' = skip_count
            /\ success_count' = success_count ]_vars

\* C2 amended: a row with a missing latitude or longitude causes no request,
\* writes no file and is never counted as saved; when the loop passes it, it is
\* counted as skipped (only skip_count moves) if a file exists at its output
\* path when the row is reached, and as failed (only fail_count moves) otherwise.
C2_Amended ==
    [][ AtRowMissingCoord =>
            /\ ~Requests
            /\ files' = files
            /\ success_count' = success_count
            /\ cursor' = cursor + 1 =>
                 IF Exists(files, OutputPath(df, output_dir, cursor))
                 THEN skip_count' = skip_count + 1 /\ fail_count' = fail_count
                 ELSE fail_count' = fail_count + 1 /\ skip_count' = skip_count ]_vars

C2_Witness ==
    /\ pc = "returned" /\ mpc = "first"
    /\ \E i, j \in RowsMissingCoord(df) :
          /\ Cur.cls[i] = "skipped"
          /\ Cur.cls[j] = "failed"
    /\ Cur.requests = 0

(***************************************************************************)
(* C3                                                                      *)
(***************************************************************************)
\* C3 as claimed: a call of fetch_satellite_image on a path that did not exist
\* leaves no file there when it returns False (the row is counted as failed);
\* a file is there afterwards only if it returned True (counted as saved).
C3_WritesOnSuccessOnly ==
    [][ (Requests /\ Last(netlog').kind = "image") =>
            LET p == Last(netlog').path
            IN  ~Exists(files, p) =>
                  /\ fail_count' = fail_count + 1 => ~Exists(files', p)
                  /\ Exists(files', p) => success_count' = success_count + 1 ]_vars

(***************************************************************************)
(* C4                                                                      *)
(***************************************************************************)
\* C4: with the credential absent or empty, main only prints the diagnostic
\* and ends: no request, no call of the batch, the file system as it was.
C4_NoKeyNoEffect ==
    KeyAbsentOrEmpty =>
        /\ mpc \in {"start", "done"}
        /\ netlog = <<>>
        /\ calls = <<>>
        /\ files = files0 /\ dirs = dirs0
        /\ mpc = "start" => console = <<>>
        /\ mpc = "done" =>
              console = <<Say("CRITICAL ERROR: GOOGLE_MAPS_API_KEY not found", ".env")>>

C4_Witness ==
    /\ API_KEY = EmptyKey
    /\ mpc = "done"
    /\ ~Exists(files, Join(".", train_xlsx))
    /\ Len(console) = 1

(***************************************************************************)
(* C5                                                                      *)
(***************************************************************************)
\* C5: a request (spreadsheet or image) is issued only for a path at which no
\* file exists, and no step changes or removes a file that exists.
C5_NeverRefetched ==
    [][ /\ ExistingFilesKept
        /\ Requests => ~Exists(files, Last(netlog').path) ]_vars

C5_Witness ==
    /\ mpc = "done"
    /\ ~KeyAbsentOrEmpty
    /\ Exists(files0, Join(".", train_xlsx))
    /\ ~Requested("xlsx", Join(".", train_xlsx))
    /\ Requested("xlsx", Join(".", test_xlsx))
    /\ \E k \in DOMAIN calls : \E i \in DOMAIN calls[k].cls : calls[k].cls[i] = "skipped"

(***************************************************************************)
(* C6                                                                      *)
(***************************************************************************)
\* C6: a call on a table without a column resolvable to lat or to long ends at
\* the column check with the diagnostic listing the columns: no request, no
\* row classified or counted, no report, no directory created.
C6_MissingColumnsAbort ==
    (calls # <<>> /\ ~Resolvable(Cur.columns0)) =>
        /\ pc \in {"verify", "returned"}
        /\ Cur.requests = 0
        /\ \A i \in DOMAIN Cur.cls : Cur.cls[i] = "none"
        /\ Cur.report = <<>>
        /\ success_count = 0 /\ skip_count = 0 /\ fail_count = 0
        /\ dirs = Cur.dirs0
        /\ netlog = <<>> /\ files = files0
        /\ pc = "returned" =>
              /\ Last(console).msg = "Error: Column not found. Available:"
              /\ Last(console).arg = df.columns

C6_Witness ==
    /\ mpc = "second" /\ pc = "returned"
    /\ ~Resolvable(Cur.columns0)
    /\ Len(df.rows) = 2
    /\ "satellite_images" \notin dirs

(***************************************************************************)
(* C7                                                                      *)
(***************************************************************************)
TestDownloadAttempted ==
    \/ Printed("already exists. Skipping download.", test_xlsx)
    \/ Printed("Downloading", test_xlsx)

TestProcessingAttempted ==
    IF ~Exists(files, Join(".", test_xlsx)) THEN Printed("not found.", test_xlsx)
    ELSE IF ReadExcelRaises(files[Join(".", test_xlsx)])
    THEN Printed("Error processing", test_xlsx)
    ELSE \E k \in DOMAIN calls : calls[k].dir = "test_images"

\* C7: with the credential present no exception leaves main (its position is
\* always one of the code's), and when main ends the test dataset has been
\* attempted (its download, and its load and batch when test.xlsx exists),
\* whatever happened to the train dataset.
C7_DatasetIsolation ==
    ~KeyAbsentOrEmpty =>
        /\ mpc \in {"start", "dl_train", "dl_test", "proc_train", "in_train",
                    "proc_test", "in_test", "done"}
        /\ mpc = "done" => TestDownloadAttempted /\ TestProcessingAttempted

C7_Witness ==
    /\ mpc = "done"
    /\ Len(calls) = 2
    /\ calls[1].dir = "satellite_images" /\ calls[1].report = <<>>
    /\ Resolvable(calls[1].columns0)
    /\ Printed("Error processing", train_xlsx)
    /\ calls[2].dir = "test_images" /\ calls[2].report = <<1, 0, 0>>

(***************************************************************************)
(* C8                                                                      *)
(***************************************************************************)
\* every request so far was answered with success
AllAnsweredOk ==
    \A k \in DOMAIN calls : \A i \in DOMAIN calls[k].resp : calls[k].resp[i] \in {"none", "ok"}

\* every row has an identifier and no two rows share one
DistinctIdentifiers ==
    /\ \A i \in DOMAIN df.rows : ~(HasColumn(df, s_id) /\ Cell(df, i, s_id).na)
    /\ \A i, j \in DOMAIN df.rows : i # j => ImgId(df, i) # ImgId(df, j)

NoImageAtStart == \A p \in DOMAIN files0 : p[1] # output_dir

\* the k-th call has ended, by a return or by an exception
Ended(k) == k < Len(calls) \/ (k = Len(calls) /\ pc \in {"returned", "raised"})

\* C8: distinct identifiers, no image in the directory at the start, every
\* request answered with success.  The first run reports saved = rows with
\* both coordinates, skipped = 0, failed = rows with a missing coordinate; the
\* second reports saved = 0, skipped = the first run's saved, failed unchanged.
C8_Counters ==
    (calls # <<>> /\ Resolvable(calls[1].columns0) /\ DistinctIdentifiers
       /\ NoImageAtStart /\ AllAnsweredOk) =>
        LET both == Cardinality(RowsWithCoords(df))
            miss == Cardinality(RowsMissingCoord(df))
        IN  /\ Ended(1) => /\ calls[1].report = <<both, 0, miss>>
                            /\ both + miss = Len(df.rows)
            /\ Ended(2) => calls[2].report = <<0, both, miss>>

C8_Witness ==
    /\ df.rows = ScenarioTable.rows
    /\ NoImageAtStart /\ AllAnsweredOk
    /\ mpc = "second" /\ pc = "returned"
    /\ calls[1].report = <<2, 0, 1>>
    /\ calls[2].report = <<0, 2, 1>>

(***************************************************************************)
(* C9                                                                      *)
(***************************************************************************)
\* C9 as claimed: once the columns are resolved, when the batch ends every row
\* has been classified, the three counters add up to the number of rows, and
\* the requests are the saved rows plus the failed rows that had coordinates.
C9_EveryRowClassified ==
    (calls # <<>> /\ Resolvable(Cur.columns0) /\ pc \in {"returned", "raised"}) =>
        /\ \A i \in DOMAIN df.rows : Cur.cls[i] \in {"saved", "skipped", "failed"}
        /\ success_count + skip_count + fail_count = Len(df.rows)
        /\ Cur.requests = success_count
               + Cardinality({i \in RowsWithCoords(df) : Cur.cls[i] = "failed"})

(***************************************************************************)
(* C10                                                                     *)
(***************************************************************************)
\* C10: each fetch is followed by one delay before the next row is examined
\* or the batch ends; rows that are skipped or lack a coordinate cause none.
C10_Pacing ==
    calls # <<>> =>
        /\ Cur.sleeps <= Cur.requests
        /\ Cur.requests <= Cur.sleeps + 1
        /\ pc \in {"row", "returned", "raised"} => Cur.sleeps = Cur.requests
        /\ pc = "sleep" => Cur.requests = Cur.sleeps + 1

C10_Witness ==
    /\ pc = "returned"
    /\ Len(df.rows) = 3
    /\ Cur.cls = <<"saved", "failed", "failed">>
    /\ Cur.resp[2] = "none" /\ Cur.resp[3] = "http_error"
    /\ Cur.requests = 2 /\ Cur.sleeps = 2

====
